---- MODULE Spec2Model ----
(***************************************************************************)
(* A model of noaa/tides.py: the NoaaTimeRange validator and serializer,   *)
(* the NoaaRequest builder, its readiness check, its URL and execute().    *)
(*                                                                         *)
(* Python values are tagged records.  A Python string is a sequence of     *)
(* chunks (TLA+ strings); concatenation is \o.  Strings that the program   *)
(* parses or formats digit by digit are written one character per chunk.   *)
(***************************************************************************)
EXTENDS Integers, Sequences, FiniteSets, TLC

VARIABLES
    begin, end, hours, date,      \* NoaaTimeRange.begin / end / hours / date
    _product, _datum, _units,     \* NoaaRequest._product / _datum / _units
    _station, _interval,          \* NoaaRequest._station / _interval
    _timezone,                    \* NoaaRequest._timezone
    call,                         \* the operation called last, with its argument
    ret,                          \* its outcome: a returned value or a raised exception
    fetched,                      \* the URL handed to requests.get by that call, or None
    run                           \* one entry per execute() call of the run of consecutive
                                  \* execute() calls that the last call ends: the URL it
                                  \* fetched (or None) and whether it returned a result

vars == <<begin, end, hours, date, _product, _datum, _units, _station,
          _interval, _timezone, call, ret, fetched, run>>

trVars  == <<begin, end, hours, date>>
reqVars == <<_product, _datum, _units, _station, _interval, _timezone>>

----------------------------------------------------------------------------
(* Bounds of the model. *)

\* direct assignments to NoaaTimeRange.hours range over -MaxHours..MaxHours
MaxHours == 2
\* a payload's "predictions" / "data" array holds at most MaxRows rows
MaxRows == 2
\* execute() is called at most MaxCalls times in a row
MaxCalls == 2

----------------------------------------------------------------------------
(* Python values. *)

None == [k |-> "None"]
PyBool(b) == [k |-> "bool", b |-> b]
PyInt(n) == [k |-> "int", n |-> n]
PyStr(s) == [k |-> "str", s |-> s]
Member(cls, name, value) == [k |-> "enum", cls |-> cls, name |-> name, value |-> value]

\* datetime.datetime(year, month, day, hour, minute, second)
datetime(Y, M, D, h, m, s) ==
    [k |-> "datetime", year |-> Y, month |-> M, day |-> D,
     hour |-> h, minute |-> m, second |-> s]

\* The outcome of a call: it returns a value or raises an exception.
Return(v) == [k |-> "return", v |-> v]
Raise(type, msg) == [k |-> "raise", type |-> type, msg |-> msg]
Returned(o) == o.k = "return"
Raised(o) == o.k = "raise"

\* Python truth value testing: None, 0 and '' are false; datetime objects and
\* members of a plain enum.Enum are always true.
Truthy(x) ==
    CASE x.k = "None" -> FALSE
      [] x.k = "int"  -> x.n # 0
      [] x.k = "str"  -> x.s # <<>>
      [] x.k = "bool" -> x.b
      [] OTHER        -> TRUE

\* isinstance(x, Cls) for an enum class, given as the set of its members.
isinstance(x, Cls) == x \in Cls

----------------------------------------------------------------------------
(* The enumerated vocabulary. *)

TimeZone == {
    Member("TimeZone", "GMT", <<"gmt">>),
    Member("TimeZone", "LOCAL", <<"lst">>),
    Member("TimeZone", "LOCAL_DST", <<"lst_ldt">>) }

Interval == {
    Member("Interval", "HILO", <<"hilo">>),
    Member("Interval", "HOUR", <<"h">>) }

Datum == {
    Member("Datum", "COLUMBIA_RIVER", <<"CRD">>),
    Member("Datum", "GREAT_LAKES", <<"IGLD">>),
    Member("Datum", "GREAT_LAKES_LOW_WATER", <<"LWD">>),
    Member("Datum", "MEAN_HIGHER_HIGH_WATER", <<"MHHW">>),
    Member("Datum", "MEAN_HIGH_WATER", <<"MHW">>),
    Member("Datum", "MEAN_TIDE_LEVEL", <<"MTL">>),
    Member("Datum", "MEAN_SEA_LEVEL", <<"MSL">>),
    Member("Datum", "MEAN_LOW_WATER", <<"MLW">>),
    Member("Datum", "MEAN_LOWER_LOW_WATER", <<"MLLW">>),
    Member("Datum", "N_AMERICAN_VERTICAL", <<"NAVD">>),
    Member("Datum", "STATION", <<"STND">>) }

Product == {
    Member("Product", "WATER_LEVEL", <<"water_level">>),
    Member("Product", "AIR_TEMP", <<"air_temperature">>),
    Member("Product", "WATER_TEMP", <<"water_temp">>),
    Member("Product", "WIND", <<"wind">>),
    Member("Product", "AIR_PRESSURE", <<"air_pressure">>),
    Member("Product", "AIR_GAP", <<"air_gap">>),
    Member("Product", "CONDUCT", <<"conductivity">>),
    Member("Product", "VIS", <<"visibility">>),
    Member("Product", "HUMIDITY", <<"humidity">>),
    Member("Product", "SALINITY", <<"salinity">>),
    Member("Product", "HOURLY_HEIGHT", <<"hourly_height">>),
    Member("Product", "HIGH_LOW", <<"high_low">>),
    Member("Product", "DAILY_MEAN", <<"daily_mean">>),
    Member("Product", "MONTHLY_MEAN", <<"monthly_mean">>),
    Member("Product", "ONE_MIN_WL", <<"one_minute_water_level">>),
    Member("Product", "PREDICTIONS", <<"predictions">>),
    Member("Product", "DATUMS", <<"datums">>),
    Member("Product", "CURRENTS", <<"currents">>) }

Unit == {
    Member("Unit", "ENGLISH", <<"english">>),
    Member("Unit", "METRIC", <<"metric">>) }

NoaaDate == {
    Member("NoaaDate", "TODAY", <<"today">>),
    Member("NoaaDate", "LATEST", <<"latest">>),
    Member("NoaaDate", "RECENT", <<"recent">>) }

\* Cls.NAME
Attr(Cls, name) == CHOOSE m \in Cls : m.name = name

----------------------------------------------------------------------------
(* Strings: decimal formatting and joining. *)

Digit(d) == <<"0", "1", "2", "3", "4", "5", "6", "7", "8", "9">>[d + 1]

\* n >= 0 in decimal, zero-padded to exactly w digits (strftime's %Y %m %d %H %M)
RECURSIVE Pad(_, _)
Pad(n, w) == IF w = 0 THEN <<>> ELSE Pad(n \div 10, w - 1) \o <<Digit(n % 10)>>

RECURSIVE NatStr(_)
NatStr(n) == IF n < 10 THEN <<Digit(n)>> ELSE NatStr(n \div 10) \o <<Digit(n % 10)>>

\* str(x) for the values the program passes to it: an int or None
str(x) ==
    CASE x.k = "None" -> <<"None">>
      [] x.k = "int"  -> IF x.n < 0 THEN <<"-">> \o NatStr(-x.n) ELSE NatStr(x.n)
      [] x.k = "str"  -> x.s

\* sep.join(parts)
RECURSIVE Join(_, _)
Join(sep, parts) ==
    IF parts = <<>> THEN <<>>
    ELSE IF Len(parts) = 1 THEN parts[1]
    ELSE parts[1] \o sep \o Join(sep, Tail(parts))

\* dt.strftime('%Y%m%d %H:%M'): the seconds are dropped
strftime(dt) ==
    Pad(dt.year, 4) \o Pad(dt.month, 2) \o Pad(dt.day, 2) \o <<" ">>
        \o Pad(dt.hour, 2) \o <<":">> \o Pad(dt.minute, 2)

\* a < b on two sequences of integers, lexicographically
RECURSIVE LexLess(_, _)
LexLess(a, b) ==
    IF a = <<>> \/ b = <<>> THEN FALSE
    ELSE IF Head(a) # Head(b) THEN Head(a) < Head(b)
    ELSE LexLess(Tail(a), Tail(b))

\* datetime.__lt__ on two naive datetimes
datetime_lt(a, b) ==
    LexLess(<<a.year, a.month, a.day, a.hour, a.minute, a.second>>,
            <<b.year, b.month, b.day, b.hour, b.minute, b.second>>)

----------------------------------------------------------------------------
(* NoaaTimeRange.  tr is the record of its four fields. *)

TimeRangeOf(b, e, h, d) == [begin |-> b, end |-> e, hours |-> h, date |-> d]

\* the time range of the current state
time_range == TimeRangeOf(begin, end, hours, date)

\* NoaaTimeRange.is_valid
is_valid(tr) ==
    IF Truthy(tr.begin) /\ Truthy(tr.end) /\ ~(Truthy(tr.hours) \/ Truthy(tr.date))
    THEN datetime_lt(tr.begin, tr.end)
    ELSE IF Truthy(tr.begin) /\ Truthy(tr.hours) /\ ~(Truthy(tr.end) \/ Truthy(tr.date))
    THEN tr.hours.n > 0
    ELSE IF Truthy(tr.end) /\ Truthy(tr.hours) /\ ~(Truthy(tr.begin) \/ Truthy(tr.date))
    THEN tr.hours.n > 0
    ELSE IF Truthy(tr.hours) /\ ~(Truthy(tr.begin) \/ Truthy(tr.end) \/ Truthy(tr.date))
    THEN tr.hours.n > 0
    ELSE IF Truthy(tr.date) /\ ~(Truthy(tr.begin) \/ Truthy(tr.end) \/ Truthy(tr.hours))
    THEN isinstance(tr.date, NoaaDate)
    ELSE FALSE

\* self.date.value: the member's value; a str has no attribute 'value'
date_value(d) ==
    IF d.k = "enum" THEN Return(d.value)
    ELSE Raise("AttributeError", <<"'str' object has no attribute 'value'">>)

\* NoaaTimeRange.as_dict: the dict as the sequence of its <<key, value>> items
\* in insertion order, or the exception raised while building it
as_dict(tr) ==
    LET b == IF Truthy(tr.begin) THEN << <<"begin_date", strftime(tr.begin)>> >> ELSE <<>>
        e == IF Truthy(tr.end) THEN << <<"end_date", strftime(tr.end)>> >> ELSE <<>>
        h == IF Truthy(tr.hours) THEN << <<"range", str(tr.hours)>> >> ELSE <<>>
    IN  IF Truthy(tr.date)
        THEN IF Raised(date_value(tr.date)) THEN date_value(tr.date)
             ELSE Return(b \o e \o h \o << <<"date", date_value(tr.date).v>> >>)
        ELSE Return(b \o e \o h)

\* '{}={}'.format(*x) for each item x
FormatItems(items) == [i \in 1..Len(items) |-> <<items[i][1]>> \o <<"=">> \o items[i][2]]

\* NoaaTimeRange.__str__
time_range_str(tr) ==
    IF Raised(as_dict(tr)) THEN as_dict(tr)
    ELSE Return(Join(<<"&">>, FormatItems(as_dict(tr).v)))

----------------------------------------------------------------------------
(* NoaaRequest.  req is the record of its fields. *)

RequestOf(tr, p, d, u, s, i, tz) ==
    [time_range |-> tr, product |-> p, datum |-> d, units |-> u,
     station |-> s, interval |-> i, timezone |-> tz]

\* the request of the current state
self == RequestOf(time_range, _product, _datum, _units, _station, _interval, _timezone)

\* NoaaRequest.URL_FORMAT, up to its '{}'
URL_FORMAT ==
    <<"https://tidesandcurrents.noaa.gov/api/datagetter?", "&application=noaa_py&format=json&">>

\* Cls(x): the member whose value is the string x, or ValueError
EnumCall(Cls, clsname, x) ==
    IF \E m \in Cls : m.value = x.s
    THEN Return(CHOOSE m \in Cls : m.value = x.s)
    ELSE Raise("ValueError", <<"'">> \o x.s \o <<"' is not a valid ", clsname>>)

\* a setter body that keeps whatever it is given when no member matches
Resolve_lenient(Cls, clsname, x) ==
    IF isinstance(x, Cls) THEN Return(x)
    ELSE IF Returned(EnumCall(Cls, clsname, x)) THEN EnumCall(Cls, clsname, x)
    ELSE Return(x)

\* the body shared by the setters date, product, datum, units, interval and
\* timezone: a member is kept, anything else goes through Cls(x)
Resolve(Cls, clsname, x) ==
    IF isinstance(x, Cls) THEN Return(x) ELSE EnumCall(Cls, clsname, x)

\* x.value where x is None or an enum member
value_of(x) ==
    IF x.k = "enum" THEN Return(x.value)
    ELSE Raise("AttributeError", <<"'NoneType' object has no attribute 'value'">>)

\* the first raised outcome of a sequence of outcomes, or None
RECURSIVE FirstRaised(_)
FirstRaised(outs) ==
    IF outs = <<>> THEN None
    ELSE IF Raised(Head(outs)) THEN Head(outs)
    ELSE FirstRaised(Tail(outs))

\* __str__ with the interval parameter left out when no interval is set
request_str_optional_interval(req) ==
    LET args == Join(<<"&">>,
                    << time_range_str(req.time_range).v,
                       <<"product=">> \o req.product.value,
                       <<"datum=">> \o req.datum.value,
                       <<"units=">> \o req.units.value,
                       <<"time_zone=">> \o req.timezone.value >>
                    \o (IF Truthy(req.interval)
                        THEN << <<"interval=">> \o req.interval.value >> ELSE <<>>)
                    \o << <<"station=">> \o str(req.station) >>)
    IN  IF \E x \in {req.product, req.datum, req.units, req.timezone} : x.k # "enum"
        THEN Raise("AttributeError", <<"'NoneType' object has no attribute 'value'">>)
        ELSE IF Raised(time_range_str(req.time_range)) THEN time_range_str(req.time_range)
        ELSE Return(URL_FORMAT \o args)

\* NoaaRequest.__str__: the list's elements are evaluated in order, so the
\* first element that raises decides the outcome
request_str(req) ==
    LET interval == IF Truthy(req.interval) THEN value_of(req.interval) ELSE Return(<<>>)
        elems == << time_range_str(req.time_range),
                    value_of(req.product),
                    value_of(req.datum),
                    value_of(req.units),
                    value_of(req.timezone) >>
        args == Join(<<"&">>, <<
                    elems[1].v,
                    <<"product=">> \o elems[2].v,
                    <<"datum=">> \o elems[3].v,
                    <<"units=">> \o elems[4].v,
                    <<"time_zone=">> \o elems[5].v,
                    <<"interval=">> \o interval.v,
                    <<"station=">> \o str(req.station) >>)
    IN  IF Raised(interval) THEN interval
        ELSE IF FirstRaised(elems) # None THEN FirstRaised(elems)
        ELSE Return(URL_FORMAT \o args)

\* _ready with the station test left out
_ready_no_station(req, error) ==
    LET bad == << ~is_valid(req.time_range), ~isinstance(req.product, Product),
                  ~isinstance(req.datum, Datum), ~isinstance(req.units, Unit),
                  ~isinstance(req.timezone, TimeZone) >>
        msg == << <<"Invalid time range specification.">>, <<"Invalid or absent NOAA Product.">>,
                  <<"Invalid or absent NOAA Datum.">>, <<"Invalid or absent Unit specification.">>,
                  <<"Invalid or absent Timezone.">> >>
    IN  IF error /\ \E i \in 1..5 : bad[i]
        THEN Raise("ApiError", msg[CHOOSE i \in 1..5 : bad[i] /\ \A j \in 1..(i - 1) : ~bad[j]])
        ELSE Return(PyBool(\A i \in 1..5 : ~bad[i]))

\* _ready with the interval treated as a required field
_ready_interval_required(req, error) ==
    LET bad == << ~is_valid(req.time_range), ~isinstance(req.product, Product),
                  ~isinstance(req.datum, Datum), ~isinstance(req.units, Unit),
                  ~isinstance(req.timezone, TimeZone), ~Truthy(req.station),
                  ~isinstance(req.interval, Interval) >>
        msg == << <<"Invalid time range specification.">>, <<"Invalid or absent NOAA Product.">>,
                  <<"Invalid or absent NOAA Datum.">>, <<"Invalid or absent Unit specification.">>,
                  <<"Invalid or absent Timezone.">>, <<"Absent Station ID.">>,
                  <<"Invalid or absent Interval.">> >>
    IN  IF error /\ \E i \in 1..7 : bad[i]
        THEN Raise("ApiError", msg[CHOOSE i \in 1..7 : bad[i] /\ \A j \in 1..(i - 1) : ~bad[j]])
        ELSE Return(PyBool(\A i \in 1..7 : ~bad[i]))

\* _ready with the datum tested before the product
_ready_datum_first(req, error) ==
    LET bad == << ~is_valid(req.time_range), ~isinstance(req.datum, Datum),
                  ~isinstance(req.product, Product), ~isinstance(req.units, Unit),
                  ~isinstance(req.timezone, TimeZone), ~Truthy(req.station) >>
        msg == << <<"Invalid time range specification.">>, <<"Invalid or absent NOAA Datum.">>,
                  <<"Invalid or absent NOAA Product.">>, <<"Invalid or absent Unit specification.">>,
                  <<"Invalid or absent Timezone.">>, <<"Absent Station ID.">> >>
    IN  IF error /\ \E i \in 1..6 : bad[i]
        THEN Raise("ApiError", msg[CHOOSE i \in 1..6 : bad[i] /\ \A j \in 1..(i - 1) : ~bad[j]])
        ELSE Return(PyBool(\A i \in 1..6 : ~bad[i]))

\* NoaaRequest._ready(error)
_ready(req, error) ==
    LET bad1 == ~is_valid(req.time_range)
        bad2 == ~isinstance(req.product, Product)
        bad3 == ~isinstance(req.datum, Datum)
        bad4 == ~isinstance(req.units, Unit)
        bad5 == ~isinstance(req.timezone, TimeZone)
        bad6 == ~Truthy(req.station)
        res1 == IF bad1 THEN FALSE ELSE TRUE
        res2 == IF bad2 THEN FALSE ELSE res1
        res3 == IF bad3 THEN FALSE ELSE res2
        res4 == IF bad4 THEN FALSE ELSE res3
        res5 == IF bad5 THEN FALSE ELSE res4
        res6 == IF bad6 THEN FALSE ELSE res5
    IN  IF bad1 /\ error THEN Raise("ApiError", <<"Invalid time range specification.">>)
        ELSE IF bad2 /\ error THEN Raise("ApiError", <<"Invalid or absent NOAA Product.">>)
        ELSE IF bad3 /\ error THEN Raise("ApiError", <<"Invalid or absent NOAA Datum.">>)
        ELSE IF bad4 /\ error THEN Raise("ApiError", <<"Invalid or absent Unit specification.">>)
        ELSE IF bad5 /\ error THEN Raise("ApiError", <<"Invalid or absent Timezone.">>)
        ELSE IF bad6 /\ error THEN Raise("ApiError", <<"Absent Station ID.">>)
        ELSE Return(PyBool(res6))

----------------------------------------------------------------------------
(* Result parsers.  A JSON object is a function from its keys; a JSON      *)
(* string that is parsed is written one character per chunk.               *)

IsDigit(c) == \E d \in 0..9 : Digit(d) = c
DigitVal(c) == CHOOSE d \in 0..9 : Digit(d) = c
AllDigits(cs) == cs # <<>> /\ \A i \in 1..Len(cs) : IsDigit(cs[i])

\* the number written by a non-empty sequence of digits
RECURSIVE NatVal(_)
NatVal(cs) ==
    IF Len(cs) = 1 THEN DigitVal(cs[1])
    ELSE 10 * NatVal(SubSeq(cs, 1, Len(cs) - 1)) + DigitVal(cs[Len(cs)])

\* datetime.strptime(s, '%Y-%m-%d %H:%M') on fixed-width input
strptime(s) ==
    LET ok == /\ Len(s) = 16
              /\ AllDigits(SubSeq(s, 1, 4)) /\ s[5] = "-"
              /\ AllDigits(SubSeq(s, 6, 7)) /\ s[8] = "-"
              /\ AllDigits(SubSeq(s, 9, 10)) /\ s[11] = " "
              /\ AllDigits(SubSeq(s, 12, 13)) /\ s[14] = ":"
              /\ AllDigits(SubSeq(s, 15, 16))
              /\ NatVal(SubSeq(s, 1, 4)) >= 1
              /\ NatVal(SubSeq(s, 6, 7)) \in 1..12
              /\ NatVal(SubSeq(s, 9, 10)) \in 1..31
              /\ NatVal(SubSeq(s, 12, 13)) \in 0..23
              /\ NatVal(SubSeq(s, 15, 16)) \in 0..59
    IN  IF ok
        THEN Return(datetime(NatVal(SubSeq(s, 1, 4)), NatVal(SubSeq(s, 6, 7)),
                             NatVal(SubSeq(s, 9, 10)), NatVal(SubSeq(s, 12, 13)),
                             NatVal(SubSeq(s, 15, 16)), 0))
        ELSE Raise("ValueError", <<"time data does not match format '%Y-%m-%d %H:%M'">>)

\* mant / 10^exp with the trailing zeros of the fraction removed
RECURSIVE Normal(_, _)
Normal(mant, exp) ==
    IF exp > 0 /\ mant % 10 = 0 THEN Normal(mant \div 10, exp - 1)
    ELSE [k |-> "float", mant |-> mant, exp |-> exp]

\* the position of the first c in cs, or 0
RECURSIVE IndexOf(_, _)
IndexOf(c, cs) ==
    IF cs = <<>> THEN 0
    ELSE IF Head(cs) = c THEN 1
    ELSE IF IndexOf(c, Tail(cs)) = 0 THEN 0
    ELSE 1 + IndexOf(c, Tail(cs))

\* float(s) for a plain decimal s: [-]digits[.digits], as the exact decimal
float(s) ==
    LET neg == s # <<>> /\ Head(s) = "-"
        body == IF neg THEN Tail(s) ELSE s
        dot == IndexOf(".", body)
        ip == IF dot = 0 THEN body ELSE SubSeq(body, 1, dot - 1)
        fp == IF dot = 0 THEN <<>> ELSE SubSeq(body, dot + 1, Len(body))
        ok == AllDigits(ip \o fp) /\ (dot = 0 \/ IndexOf(".", fp) = 0)
        mant == NatVal(ip \o fp)
    IN  IF ok THEN Return(Normal(IF neg THEN 0 - mant ELSE mant, Len(fp)))
        ELSE Raise("ValueError", <<"could not convert string to float">>)

\* s.split(','): the pieces of s between the commas
RECURSIVE split(_)
split(s) ==
    IF IndexOf(",", s) = 0 THEN <<s>>
    ELSE <<SubSeq(s, 1, IndexOf(",", s) - 1)>> \o split(SubSeq(s, IndexOf(",", s) + 1, Len(s)))

\* [int(x) == 1 for x in f.split(',')]
parse_flags(f) ==
    LET xs == split(f)
    IN  IF \A i \in 1..Len(xs) : AllDigits(xs[i])
        THEN Return([i \in 1..Len(xs) |-> NatVal(xs[i]) = 1])
        ELSE Raise("ValueError", <<"invalid literal for int() with base 10">>)

\* d[key]
GetItem(d, key) ==
    IF key \in DOMAIN d THEN Return(d[key]) ELSE Raise("KeyError", <<key>>)

\* one iteration of DataResult.__init__'s loop
DataRow(row) ==
    LET outs == << strptime(row["t"]), float(row["v"]), float(row["s"]),
                   parse_flags(row["f"]) >>
    IN  IF FirstRaised(outs) # None THEN FirstRaised(outs)
        ELSE Return([time |-> outs[1].v, value |-> outs[2].v, stdev |-> outs[3].v,
                     flags |-> outs[4].v, quality |-> row["q"]])

\* one iteration of PredictionsResult.__init__'s loop
PredictionsRow(row) ==
    LET outs == << strptime(row["t"]), float(row["v"]) >>
    IN  IF FirstRaised(outs) # None THEN FirstRaised(outs)
        ELSE Return([time |-> outs[1].v, value |-> outs[2].v,
                     type |-> IF "type" \in DOMAIN row THEN PyStr(row["type"]) ELSE None])

\* DataResult(data)
DataResult(data) ==
    LET outs == [i \in 1..Len(data) |-> DataRow(data[i])]
    IN  IF FirstRaised(outs) # None THEN FirstRaised(outs)
        ELSE Return([k |-> "DataResult", _rows |-> [i \in 1..Len(data) |-> outs[i].v]])

\* PredictionsResult(data)
PredictionsResult(data) ==
    LET outs == [i \in 1..Len(data) |-> PredictionsRow(data[i])]
    IN  IF FirstRaised(outs) # None THEN FirstRaised(outs)
        ELSE Return([k |-> "PredictionsResult", _rows |-> [i \in 1..Len(data) |-> outs[i].v]])

\* requests.get(url).json(): the transport either fails or answers with a payload
Response(failed, payload) == [failed |-> failed, payload |-> payload]

\* execute without the call of _ready
execute_unchecked(req, resp) ==
    LET url == request_str(req)
        data == resp.payload
    IN  IF Raised(url) THEN [out |-> url, fetched |-> None]
        ELSE IF resp.failed
        THEN [out |-> Raise("ConnectionError", <<"transport failure">>),
              fetched |-> PyStr(url.v)]
        ELSE IF "error" \in DOMAIN data
        THEN [out |-> Raise("ApiError", data["error"]["message"]), fetched |-> PyStr(url.v)]
        ELSE IF req.product = Attr(Product, "PREDICTIONS")
        THEN [out |-> IF Raised(GetItem(data, "predictions"))
                      THEN GetItem(data, "predictions")
                      ELSE PredictionsResult(data["predictions"]),
              fetched |-> PyStr(url.v)]
        ELSE [out |-> IF Raised(GetItem(data, "data"))
                      THEN GetItem(data, "data") ELSE DataResult(data["data"]),
              fetched |-> PyStr(url.v)]

\* execute with the product ignored: the payload's "data" is always parsed
execute_always_data(req, resp) ==
    LET ready == _ready(req, TRUE)
        url == request_str(req)
        data == resp.payload
    IN  IF Raised(ready) THEN [out |-> ready, fetched |-> None]
        ELSE IF Raised(url) THEN [out |-> url, fetched |-> None]
        ELSE IF resp.failed
        THEN [out |-> Raise("ConnectionError", <<"transport failure">>),
              fetched |-> PyStr(url.v)]
        ELSE IF "error" \in DOMAIN data
        THEN [out |-> Raise("ApiError", data["error"]["message"]), fetched |-> PyStr(url.v)]
        ELSE [out |-> IF Raised(GetItem(data, "data"))
                      THEN GetItem(data, "data") ELSE DataResult(data["data"]),
              fetched |-> PyStr(url.v)]

\* NoaaRequest.execute against a transport that answers resp: the outcome and
\* the URL handed to requests.get (None when the call never gets that far)
execute(req, resp) ==
    LET ready == _ready(req, TRUE)
        url == request_str(req)
        data == resp.payload
        result == IF req.product = Attr(Product, "PREDICTIONS")
                  THEN IF Raised(GetItem(data, "predictions"))
                       THEN GetItem(data, "predictions")
                       ELSE PredictionsResult(data["predictions"])
                  ELSE IF Raised(GetItem(data, "data"))
                       THEN GetItem(data, "data")
                       ELSE DataResult(data["data"])
    IN  IF Raised(ready) THEN [out |-> ready, fetched |-> None]
        ELSE IF Raised(url) THEN [out |-> url, fetched |-> None]
        ELSE IF resp.failed
        THEN [out |-> Raise("ConnectionError", <<"transport failure">>),
              fetched |-> PyStr(url.v)]
        ELSE IF "error" \in DOMAIN data
        THEN [out |-> Raise("ApiError", data["error"]["message"]), fetched |-> PyStr(url.v)]
        ELSE [out |-> result, fetched |-> PyStr(url.v)]

----------------------------------------------------------------------------
(* The inputs the operations are called with. *)

D1  == datetime(2019, 5, 1, 0, 0, 0)
D1s == datetime(2019, 5, 1, 0, 0, 30)
D2  == datetime(2019, 5, 2, 0, 0, 0)

\* values assigned directly to the fields of a NoaaTimeRange
BeginValues == {None, D1, D1s, D2}
HoursValues == {None} \cup {PyInt(n) : n \in (0 - MaxHours)..MaxHours}
DateValues  == {None, PyStr(<<"foo">>)} \cup NoaaDate

\* arguments of the NoaaRequest setters
BeginArgs    == {D1, D2}
EndArgs      == {D2}
RangeArgs    == {PyInt(0), PyInt(1)}
DateArgs     == {Attr(NoaaDate, "TODAY"), PyStr(<<"today">>), PyStr(<<"tomorrow">>)}
ProductArgs  == {Attr(Product, "PREDICTIONS"), PyStr(<<"predictions">>), PyStr(<<"tides">>)}
DatumArgs    == {Attr(Datum, "MEAN_LOWER_LOW_WATER"), PyStr(<<"MLLW">>), PyStr(<<"mllw">>)}
UnitArgs     == {Attr(Unit, "ENGLISH"), PyStr(<<"english">>), PyStr(<<"imperial">>)}
StationArgs  == {PyInt(0), PyInt(8720211)}
IntervalArgs == {Attr(Interval, "HILO"), PyStr(<<"hilo">>), PyStr(<<"6">>)}
TimeZoneArgs == {Attr(TimeZone, "GMT"), PyStr(<<"gmt">>), PyStr(<<"utc">>)}

\* all sequences over S of length at most n
SeqsUpTo(S, n) == UNION {[1..m -> S] : m \in 0..n}

T0420 == <<"2","0","1","9","-","0","5","-","0","1"," ","0","4",":","2","0">>
T1050 == <<"2","0","1","9","-","0","5","-","0","1"," ","1","0",":","5","0">>

PredictionJson == {
    [t |-> T0420, v |-> <<"0",".","6","3","3">>, type |-> <<"L">>],
    [t |-> T1050, v |-> <<"4",".","4","5","0">>],
    [t |-> T1050, v |-> <<"n","/","a">>, type |-> <<"H">>] }

DataJson == {
    [t |-> T0420, v |-> <<"1",".","6","6","9">>, s |-> <<"0",".","0","2","3">>,
     f |-> <<"0",",","0",",","0",",","0">>, q |-> <<"p">>],
    [t |-> <<"1","8",":","4","2">>, v |-> <<"1",".","6","5","5">>, s |-> <<"0",".","0","3","0">>,
     f |-> <<"1",",","0",",","0",",","0">>, q |-> <<"p">>],
    [t |-> T1050, v |-> <<"-","1",".","5">>, s |-> <<"0",".","0","3","0">>,
     f |-> <<"1",",","0",",","0",",","0">>, q |-> <<"v">>] }

Messages == { <<"No Predictions data was found.">>, <<"Wrong Datum">> }

\* the decoded payloads the service answers with
Payloads ==
    {[error |-> [message |-> m]] : m \in Messages}
    \cup {[predictions |-> rows] : rows \in SeqsUpTo(PredictionJson, MaxRows)}
    \cup {[metadata |-> <<"8735180">>, data |-> rows] : rows \in SeqsUpTo(DataJson, MaxRows)}
    \cup {[error |-> [message |-> m], predictions |-> <<>>] : m \in Messages}

Responses == {Response(TRUE, [x \in {} |-> x])} \cup {Response(FALSE, p) : p \in Payloads}

\* a few of them, for the runs that explore the builder
SomeResponses == {
    Response(TRUE, [x \in {} |-> x]),
    Response(FALSE, [error |-> [message |-> <<"Wrong Datum">>]]),
    Response(FALSE, [predictions |-> <<[t |-> T0420, v |-> <<"0",".","6","3","3">>, type |-> <<"L">>]>>]) }

----------------------------------------------------------------------------
(* The operations. *)

Call(op, arg) == [op |-> op, arg |-> arg]

\* `return self`
Self == [k |-> "self"]

\* NoaaRequest.__init__ and NoaaTimeRange.__init__
Init ==
    /\ begin = None /\ end = None /\ hours = None /\ date = None
    /\ _product = None /\ _datum = None /\ _units = None
    /\ _station = None /\ _interval = None /\ _timezone = None
    /\ call = Call("__init__", None)
    /\ ret = Return(None)
    /\ fetched = None
    /\ run = <<>>

NoaaRequest_begin_date(x) ==
    /\ begin' = x
    /\ call' = Call("begin_date", x) /\ ret' = Return(Self) /\ fetched' = None /\ run' = <<>>
    /\ UNCHANGED <<end, hours, date, reqVars>>

NoaaRequest_end_date(x) ==
    /\ end' = x
    /\ call' = Call("end_date", x) /\ ret' = Return(Self) /\ fetched' = None /\ run' = <<>>
    /\ UNCHANGED <<begin, hours, date, reqVars>>

NoaaRequest_range(x) ==
    /\ hours' = x
    /\ call' = Call("range", x) /\ ret' = Return(Self) /\ fetched' = None /\ run' = <<>>
    /\ UNCHANGED <<begin, end, date, reqVars>>

NoaaRequest_date(x) ==
    LET r == Resolve(NoaaDate, "NoaaDate", x)
    IN  /\ date' = IF Returned(r) THEN r.v ELSE date
        /\ call' = Call("date", x)
        /\ ret' = IF Returned(r) THEN Return(Self) ELSE r
        /\ fetched' = None /\ run' = <<>>
        /\ UNCHANGED <<begin, end, hours, reqVars>>

\* a product() that has cleared the field by the time the lookup fails
NoaaRequest_product_clearing(x) ==
    LET r == Resolve(Product, "Product", x)
    IN  /\ _product' = IF Returned(r) THEN r.v ELSE None
        /\ call' = Call("product", x)
        /\ ret' = IF Returned(r) THEN Return(Self) ELSE r
        /\ fetched' = None /\ run' = <<>>
        /\ UNCHANGED <<trVars, _datum, _units, _station, _interval, _timezone>>

NoaaRequest_product(x) ==
    LET r == Resolve(Product, "Product", x)
    IN  /\ _product' = IF Returned(r) THEN r.v ELSE _product
        /\ call' = Call("product", x)
        /\ ret' = IF Returned(r) THEN Return(Self) ELSE r
        /\ fetched' = None /\ run' = <<>>
        /\ UNCHANGED <<trVars, _datum, _units, _station, _interval, _timezone>>

NoaaRequest_datum(x) ==
    LET r == Resolve(Datum, "Datum", x)
    IN  /\ _datum' = IF Returned(r) THEN r.v ELSE _datum
        /\ call' = Call("datum", x)
        /\ ret' = IF Returned(r) THEN Return(Self) ELSE r
        /\ fetched' = None /\ run' = <<>>
        /\ UNCHANGED <<trVars, _product, _units, _station, _interval, _timezone>>

NoaaRequest_units(x) ==
    LET r == Resolve(Unit, "Unit", x)
    IN  /\ _units' = IF Returned(r) THEN r.v ELSE _units
        /\ call' = Call("units", x)
        /\ ret' = IF Returned(r) THEN Return(Self) ELSE r
        /\ fetched' = None /\ run' = <<>>
        /\ UNCHANGED <<trVars, _product, _datum, _station, _interval, _timezone>>

NoaaRequest_station(x) ==
    /\ _station' = x
    /\ call' = Call("station", x) /\ ret' = Return(Self) /\ fetched' = None /\ run' = <<>>
    /\ UNCHANGED <<trVars, _product, _datum, _units, _interval, _timezone>>

NoaaRequest_interval(x) ==
    LET r == Resolve(Interval, "Interval", x)
    IN  /\ _interval' = IF Returned(r) THEN r.v ELSE _interval
        /\ call' = Call("interval", x)
        /\ ret' = IF Returned(r) THEN Return(Self) ELSE r
        /\ fetched' = None /\ run' = <<>>
        /\ UNCHANGED <<trVars, _product, _datum, _units, _station, _timezone>>

NoaaRequest_timezone(x) ==
    LET r == Resolve(TimeZone, "TimeZone", x)
    IN  /\ _timezone' = IF Returned(r) THEN r.v ELSE _timezone
        /\ call' = Call("timezone", x)
        /\ ret' = IF Returned(r) THEN Return(Self) ELSE r
        /\ fetched' = None /\ run' = <<>>
        /\ UNCHANGED <<trVars, _product, _datum, _units, _station, _interval>>

\* str(request)
NoaaRequest_str ==
    /\ call' = Call("__str__", None)
    /\ ret' = IF Returned(request_str(self)) THEN Return(PyStr(request_str(self).v))
              ELSE request_str(self)
    /\ fetched' = None /\ run' = <<>>
    /\ UNCHANGED <<trVars, reqVars>>

\* request._ready(error)
NoaaRequest_ready(error) ==
    /\ call' = Call("_ready", PyBool(error))
    /\ ret' = _ready(self, error)
    /\ fetched' = None /\ run' = <<>>
    /\ UNCHANGED <<trVars, reqVars>>

\* an execute() that hands back the result of the preceding call of the run,
\* when that call returned one, instead of fetching again
NoaaRequest_execute_cached(resp) ==
    /\ Len(run) < MaxCalls
    /\ call' = Call("execute", resp)
    /\ IF run # <<>> /\ Returned(ret)
       THEN /\ ret' = ret
            /\ fetched' = None
            /\ run' = Append(run, [url |-> None, ok |-> TRUE])
       ELSE /\ ret' = execute(self, resp).out
            /\ fetched' = execute(self, resp).fetched
            /\ run' = Append(run, [url |-> execute(self, resp).fetched,
                                   ok |-> Returned(execute(self, resp).out)])
    /\ UNCHANGED <<trVars, reqVars>>

\* request.execute(), the transport answering resp
NoaaRequest_execute(resp) ==
    /\ Len(run) < MaxCalls
    /\ call' = Call("execute", resp)
    /\ ret' = execute(self, resp).out
    /\ fetched' = execute(self, resp).fetched
    /\ run' = Append(run, [url |-> execute(self, resp).fetched,
                           ok |-> Returned(execute(self, resp).out)])
    /\ UNCHANGED <<trVars, reqVars>>

\* an is_valid() that first normalises a falsy duration to None
NoaaTimeRange_is_valid_normalising ==
    /\ call' = Call("is_valid", None)
    /\ ret' = Return(PyBool(is_valid(time_range)))
    /\ hours' = IF Truthy(hours) THEN hours ELSE None
    /\ fetched' = None /\ run' = <<>>
    /\ UNCHANGED <<begin, end, date, reqVars>>

\* time_range.is_valid()
NoaaTimeRange_is_valid ==
    /\ call' = Call("is_valid", None)
    /\ ret' = Return(PyBool(is_valid(time_range)))
    /\ fetched' = None /\ run' = <<>>
    /\ UNCHANGED <<trVars, reqVars>>

\* time_range.as_dict()
NoaaTimeRange_as_dict ==
    /\ call' = Call("as_dict", None)
    /\ ret' = as_dict(time_range)
    /\ fetched' = None /\ run' = <<>>
    /\ UNCHANGED <<trVars, reqVars>>

\* str(time_range)
NoaaTimeRange_str ==
    /\ call' = Call("time_range.__str__", None)
    /\ ret' = IF Returned(time_range_str(time_range))
              THEN Return(PyStr(time_range_str(time_range).v))
              ELSE time_range_str(time_range)
    /\ fetched' = None /\ run' = <<>>
    /\ UNCHANGED <<trVars, reqVars>>

\* time_range.begin = b; time_range.end = e; time_range.hours = h;
\* time_range.date = d on a NoaaTimeRange of its own
NoaaTimeRange_assign(b, e, h, d) ==
    /\ begin' = b /\ end' = e /\ hours' = h /\ date' = d
    /\ call' = Call("assign", None) /\ ret' = Return(None) /\ fetched' = None /\ run' = <<>>
    /\ UNCHANGED reqVars

----------------------------------------------------------------------------
(* Specifications. *)

\* A NoaaRequest configured through its setters, queried and executed.
Next ==
    \/ \E x \in BeginArgs : NoaaRequest_begin_date(x)
    \/ \E x \in EndArgs : NoaaRequest_end_date(x)
    \/ \E x \in RangeArgs : NoaaRequest_range(x)
    \/ \E x \in DateArgs : NoaaRequest_date(x)
    \/ \E x \in ProductArgs : NoaaRequest_product(x)
    \/ \E x \in DatumArgs : NoaaRequest_datum(x)
    \/ \E x \in UnitArgs : NoaaRequest_units(x)
    \/ \E x \in StationArgs : NoaaRequest_station(x)
    \/ \E x \in IntervalArgs : NoaaRequest_interval(x)
    \/ \E x \in TimeZoneArgs : NoaaRequest_timezone(x)
    \/ NoaaRequest_str
    \/ \E error \in BOOLEAN : NoaaRequest_ready(error)
    \/ \E resp \in SomeResponses : NoaaRequest_execute(resp)

Spec == Init /\ [][Next]_vars

\* A NoaaTimeRange on its own, its fields assigned directly.
NextTimeRange ==
    \/ \E b \in BeginValues, e \in BeginValues, h \in HoursValues, d \in DateValues :
           NoaaTimeRange_assign(b, e, h, d)
    \/ NoaaTimeRange_is_valid
    \/ NoaaTimeRange_as_dict
    \/ NoaaTimeRange_str

SpecTimeRange == Init /\ [][NextTimeRange]_vars

\* A NoaaRequest built as test_execute_waterlevel_request builds its own (the
\* time range given by range(1)), executed against every response.
NextExecute ==
    \/ NoaaRequest_range(PyInt(1))
    \/ \E x \in {Attr(Product, "PREDICTIONS"), Attr(Product, "WATER_LEVEL")} :
           NoaaRequest_product(x)
    \/ NoaaRequest_datum(Attr(Datum, "MEAN_LOWER_LOW_WATER"))
    \/ NoaaRequest_units(Attr(Unit, "ENGLISH"))
    \/ NoaaRequest_station(PyInt(8720211))
    \/ NoaaRequest_interval(Attr(Interval, "HILO"))
    \/ NoaaRequest_timezone(Attr(TimeZone, "GMT"))
    \/ \E resp \in Responses : NoaaRequest_execute(resp)

SpecExecute == Init /\ [][NextExecute]_vars

\* A NoaaRequest built as the tests build theirs, and every query of the
\* request and of its time range.
NextQueries ==
    \/ NoaaRequest_begin_date(D1)
    \/ NoaaRequest_end_date(D2)
    \/ \E x \in RangeArgs : NoaaRequest_range(x)
    \/ NoaaRequest_date(Attr(NoaaDate, "TODAY"))
    \/ NoaaRequest_product(Attr(Product, "PREDICTIONS"))
    \/ NoaaRequest_datum(Attr(Datum, "MEAN_LOWER_LOW_WATER"))
    \/ NoaaRequest_units(Attr(Unit, "ENGLISH"))
    \/ NoaaRequest_station(PyInt(8720211))
    \/ NoaaRequest_interval(Attr(Interval, "HILO"))
    \/ NoaaRequest_timezone(Attr(TimeZone, "GMT"))
    \/ NoaaTimeRange_is_valid
    \/ NoaaTimeRange_as_dict
    \/ NoaaTimeRange_str
    \/ NoaaRequest_str
    \/ \E error \in BOOLEAN : NoaaRequest_ready(error)

SpecQueries == Init /\ [][NextQueries]_vars

----------------------------------------------------------------------------
(* Vocabulary of the claims. *)

\* a field is set (populated) when it holds anything but None
IsSet(x) == x # None

\* is_ready(): what _ready(error=False) returns in the current state
IsReady == _ready(self, FALSE) = Return(PyBool(TRUE))

\* the five shapes of a time range and their conditions
MatchesOneShape(tr) ==
    \/ /\ IsSet(tr.begin) /\ IsSet(tr.end) /\ ~IsSet(tr.hours) /\ ~IsSet(tr.date)
       /\ datetime_lt(tr.begin, tr.end)
    \/ /\ IsSet(tr.begin) /\ ~IsSet(tr.end) /\ IsSet(tr.hours) /\ ~IsSet(tr.date)
       /\ tr.hours.n > 0
    \/ /\ ~IsSet(tr.begin) /\ IsSet(tr.end) /\ IsSet(tr.hours) /\ ~IsSet(tr.date)
       /\ tr.hours.n > 0
    \/ /\ ~IsSet(tr.begin) /\ ~IsSet(tr.end) /\ IsSet(tr.hours) /\ ~IsSet(tr.date)
       /\ tr.hours.n > 0
    \/ /\ ~IsSet(tr.begin) /\ ~IsSet(tr.end) /\ ~IsSet(tr.hours) /\ IsSet(tr.date)
       /\ tr.date \in NoaaDate

\* the keys of a sequence of <<key, value>> items, in order
Keys(items) == [i \in 1..Len(items) |-> items[i][1]]

\* one key per populated field, in the order begin_date, end_date, range, date
PopulatedKeys(tr) ==
    (IF IsSet(tr.begin) THEN <<"begin_date">> ELSE <<>>)
    \o (IF IsSet(tr.end) THEN <<"end_date">> ELSE <<>>)
    \o (IF IsSet(tr.hours) THEN <<"range">> ELSE <<>>)
    \o (IF IsSet(tr.date) THEN <<"date">> ELSE <<>>)

----------------------------------------------------------------------------
(* The claims. *)

\* C1: for every assignment of the four fields, is_valid() returns true if and
\* only if the populated fields match exactly one of the five shapes and that
\* shape's condition holds; every other combination returns false.
C1_IsValidIffOneShape ==
    call.op = "is_valid" => ret = Return(PyBool(MatchesOneShape(time_range)))

\* C2: whenever duration_hours is set to an integer <= 0, is_valid() returns
\* false whatever the other three fields hold; whenever duration_hours > 0 and
\* the populated fields are exactly {duration}, {begin, duration} or
\* {end, duration}, is_valid() returns true.
C2_DurationSign ==
    call.op = "is_valid" =>
        /\ (IsSet(hours) /\ hours.n <= 0) => ret = Return(PyBool(FALSE))
        /\ (IsSet(hours) /\ hours.n > 0 /\ ~IsSet(date) /\ ~(IsSet(begin) /\ IsSet(end)))
               => ret = Return(PyBool(TRUE))

\* C3: for every valid time range, as_dict() emits exactly one key per
\* populated field and none for an absent field, in the order begin_date,
\* end_date, range, date, and __str__ is those entries rendered key=value and
\* joined by '&' in the same order.
C3_SerializeKeys ==
    is_valid(time_range) =>
        /\ call.op = "as_dict" =>
               Returned(ret) /\ Keys(ret.v) = PopulatedKeys(time_range)
        /\ call.op = "time_range.__str__" =>
               /\ Returned(ret) /\ Returned(as_dict(time_range))
               /\ Keys(as_dict(time_range).v) = PopulatedKeys(time_range)
               /\ ret.v = PyStr(Join(<<"&">>,
                      [i \in 1..Len(as_dict(time_range).v) |->
                          <<as_dict(time_range).v[i][1], "=">> \o as_dict(time_range).v[i][2]]))

\* the readiness condition: the time range validates, product, datum, units
\* and timezone hold members of their enums, the station is non-null and nonzero
ReadyCondition ==
    /\ is_valid(time_range)
    /\ _product \in Product /\ _datum \in Datum /\ _units \in Unit /\ _timezone \in TimeZone
    /\ _station # None /\ _station # PyInt(0)

\* C4: in every request state, is_ready(raise_on_failure=false) returns true if
\* and only if the readiness condition holds, and returns false, without
\* raising, in every other state.
C4_IsReadyIff ==
    call = Call("_ready", PyBool(FALSE)) => ret = Return(PyBool(ReadyCondition))

\* C4 witness: _ready(False) has returned True on a ready request.
C4_Witness ==
    call = Call("_ready", PyBool(FALSE)) /\ ret = Return(PyBool(TRUE)) /\ ReadyCondition

\* everything is_ready needs has been supplied, the station counting as
\* supplied once set at all
AllSupplied ==
    /\ IsSet(_product) /\ IsSet(_datum) /\ IsSet(_units) /\ IsSet(_timezone)
    /\ IsSet(_station) /\ is_valid(time_range)

\* the same, the station counting as supplied once set to a nonzero id
AllSuppliedNonzero == AllSupplied /\ _station # PyInt(0)

\* C5 as stated: applying the setters in any order, is_ready() is false while
\* one of {product, datum, units, timezone, station, a valid time range} is not
\* yet set, is true in the state reached by the call that supplies the last of
\* them, and an interval() call never changes it.
C5_ReadyWhenLastSupplied ==
    [][ /\ ~AllSupplied' => ~IsReady'
        /\ (~AllSupplied /\ AllSupplied') => IsReady'
        /\ (call'.op = "interval") => (IsReady' = IsReady) ]_vars

\* C5 amended: the same with the station supplied only by a nonzero id.
C5_ReadyWhenLastSuppliedNonzero ==
    [][ /\ ~AllSuppliedNonzero' => ~IsReady'
        /\ (~AllSuppliedNonzero /\ AllSuppliedNonzero') => IsReady'
        /\ (call'.op = "interval") => (IsReady' = IsReady) ]_vars

\* C5 witness: the timezone, supplied last, has made the request ready, the
\* interval never having been set.
C5_Witness ==
    call.op = "timezone" /\ Returned(ret) /\ IsReady /\ _interval = None

\* the readiness conditions in the order time range, product, datum, units,
\* timezone, station id: whether each fails, and the message that names it
ConditionFails ==
    << ~is_valid(time_range), _product \notin Product, _datum \notin Datum,
       _units \notin Unit, _timezone \notin TimeZone,
       _station = None \/ _station = PyInt(0) >>

ConditionMessage ==
    << <<"Invalid time range specification.">>,
       <<"Invalid or absent NOAA Product.">>,
       <<"Invalid or absent NOAA Datum.">>,
       <<"Invalid or absent Unit specification.">>,
       <<"Invalid or absent Timezone.">>,
       <<"Absent Station ID.">> >>

FirstFailing == CHOOSE i \in 1..6 : ConditionFails[i] /\ \A j \in 1..(i - 1) : ~ConditionFails[j]

\* C6: execute() hands a URL to the transport only in a state where is_ready()
\* is true; when is_ready() is false it raises a configuration error and
\* issues no fetch.
C6_NoFetchUnlessReady ==
    call.op = "execute" =>
        /\ fetched # None => IsReady
        /\ ~IsReady =>
               /\ fetched = None
               /\ ret \in {Raise("ApiError", ConditionMessage[i]) : i \in 1..6}

\* C6 witness: execute() has been called on a request that lacks only its
\* timezone, and no fetch was issued.
C6_Witness ==
    /\ call.op = "execute" /\ ~IsReady /\ fetched = None /\ Raised(ret)
    /\ is_valid(time_range) /\ _product \in Product /\ _datum \in Datum
    /\ _units \in Unit /\ _station = PyInt(8720211) /\ _timezone = None

\* C7: is_ready(raise_on_failure=true) raises a configuration error naming the
\* first failing condition in the order time range, product, datum, units,
\* timezone, station id, whichever later conditions fail too; it raises nothing
\* and returns true when no condition fails.
C7_FirstFailingCondition ==
    call = Call("_ready", PyBool(TRUE)) =>
        IF \E i \in 1..6 : ConditionFails[i]
        THEN ret = Raise("ApiError", ConditionMessage[FirstFailing])
        ELSE ret = Return(PyBool(TRUE))

\* C7 witness: the datum and the units both fail, nothing before them does,
\* and the error names the datum.
C7_Witness ==
    /\ call = Call("_ready", PyBool(TRUE))
    /\ ~ConditionFails[1] /\ ~ConditionFails[2] /\ ConditionFails[3] /\ ConditionFails[4]
    /\ ret = Raise("ApiError", <<"Invalid or absent NOAA Datum.">>)

\* C8: to_url() returns a URL string in every request state, also when
\* product, datum, units, timezone or station has not been set; it never fails.
C8_UrlNeverFails ==
    call.op = "__str__" => (Returned(ret) /\ ret.v.k = "str")

\* the URL of a ready request, parameter by parameter
ExpectedUrl ==
    << "https://tidesandcurrents.noaa.gov/api/datagetter?",
       "&application=noaa_py&format=json&" >>
    \o time_range_str(time_range).v
    \o <<"&", "product=">> \o _product.value
    \o <<"&", "datum=">> \o _datum.value
    \o <<"&", "units=">> \o _units.value
    \o <<"&", "time_zone=">> \o _timezone.value
    \o <<"&", "interval=">> \o (IF _interval = None THEN <<>> ELSE _interval.value)
    \o <<"&", "station=">> \o str(_station)

\* the request of test_str
IsTestStrRequest ==
    /\ begin = D1 /\ end = D2 /\ hours = None /\ date = None
    /\ _product = Attr(Product, "PREDICTIONS") /\ _interval = Attr(Interval, "HILO")
    /\ _units = Attr(Unit, "ENGLISH") /\ _datum = Attr(Datum, "MEAN_LOWER_LOW_WATER")
    /\ _timezone = Attr(TimeZone, "GMT") /\ _station = PyInt(8720211)

TestStrUrl ==
    << "https://tidesandcurrents.noaa.gov/api/datagetter?",
       "&application=noaa_py&format=json&",
       "begin_date", "=", "2", "0", "1", "9", "0", "5", "0", "1", " ", "0", "0", ":", "0", "0",
       "&", "end_date", "=", "2", "0", "1", "9", "0", "5", "0", "2", " ", "0", "0", ":", "0", "0",
       "&", "product=", "predictions", "&", "datum=", "MLLW", "&", "units=", "english",
       "&", "time_zone=", "gmt", "&", "interval=", "hilo",
       "&", "station=", "8", "7", "2", "0", "2", "1", "1" >>

\* C9: for every ready request, to_url() is the base URL (application=noaa_py,
\* format=json) followed, in this order, by the time range's query string,
\* product, datum, units, time_zone, interval (empty when unset) and station,
\* each with the wire value of the field.
C9_UrlOfReadyRequest ==
    (call.op = "__str__" /\ IsReady) =>
        /\ ret = Return(PyStr(ExpectedUrl))
        /\ IsTestStrRequest => ret.v.s = TestStrUrl

\* C9 witness: the URL of a ready request with no interval has been built.
C9_Witness ==
    call.op = "__str__" /\ IsReady /\ _interval = None /\ Returned(ret)

\* the result a parser builds from rows: every row parsed, in order, or no
\* result at all when a row does not parse
IsResultOf(outcome, kind, parsed) ==
    IF \A i \in 1..Len(parsed) : Returned(parsed[i])
    THEN outcome = Return([k |-> kind, _rows |-> [i \in 1..Len(parsed) |-> parsed[i].v]])
    ELSE Raised(outcome)

\* C10: for a ready request whose fetch returns a payload: an error key makes
\* execute() fail with a service error carrying payload.error.message;
\* otherwise PREDICTIONS yields payload["predictions"] parsed as prediction
\* rows and every other product payload["data"] parsed as observation rows,
\* one row per payload row, in payload order.
C10_ExecuteResult ==
    (call.op = "execute" /\ IsReady /\ ~call.arg.failed) =>
        LET data == call.arg.payload
        IN  IF "error" \in DOMAIN data
            THEN ret = Raise("ApiError", data["error"]["message"])
            ELSE IF _product = Attr(Product, "PREDICTIONS")
            THEN "predictions" \in DOMAIN data =>
                     IsResultOf(ret, "PredictionsResult",
                                [i \in 1..Len(data["predictions"]) |->
                                    PredictionsRow(data["predictions"][i])])
            ELSE "data" \in DOMAIN data =>
                     IsResultOf(ret, "DataResult",
                                [i \in 1..Len(data["data"]) |-> DataRow(data["data"][i])])

\* C10 witness: a predictions request has returned two rows, the first
\* (2019-05-01 04:20, 0.633, "L"), the second without a type.
C10_Witness ==
    /\ call.op = "execute" /\ IsReady /\ Returned(ret)
    /\ ret.v.k = "PredictionsResult" /\ Len(ret.v._rows) = 2
    /\ ret.v._rows[1] = [time |-> datetime(2019, 5, 1, 4, 20, 0),
                         value |-> [k |-> "float", mant |-> 633, exp |-> 3],
                         type |-> PyStr(<<"L">>)]
    /\ ret.v._rows[2].type = None

\* the setters that take an enumerated value, the enumeration of each and
\* the field each one names
EnumSetters == {"date", "product", "datum", "units", "interval", "timezone"}

SetterEnum(op) ==
    CASE op = "date" -> NoaaDate
      [] op = "product" -> Product
      [] op = "datum" -> Datum
      [] op = "units" -> Unit
      [] op = "interval" -> Interval
      [] op = "timezone" -> TimeZone

FieldOf(op) ==
    CASE op = "begin_date" -> begin
      [] op = "end_date" -> end
      [] op = "range" -> hours
      [] op = "date" -> date
      [] op = "product" -> _product
      [] op = "datum" -> _datum
      [] op = "units" -> _units
      [] op = "station" -> _station
      [] op = "interval" -> _interval
      [] op = "timezone" -> _timezone

\* the members of an enumeration whose wire value is the string x
MembersWithValue(Cls, x) == {m \in Cls : x.k = "str" /\ m.value = x.s}

\* the error kind is_ready/execute raise for an incomplete request
ConfigurationErrorKind ==
    _ready(RequestOf(TimeRangeOf(None, None, None, None),
                     None, None, None, None, None, None), TRUE).type

\* C11: a setter of an enumerated field stores the member it is given,
\* stores the member whose wire value equals the string it is given, and on
\* a string matching no member raises a configuration error (the kind
\* is_ready/execute raise for an incomplete request) and does not store the
\* unknown value.
C11_EnumSetterStoresOrConfigError ==
    call.op \in EnumSetters =>
        LET Cls == SetterEnum(call.op)
            x == call.arg
        IN  /\ x \in Cls => (Returned(ret) /\ FieldOf(call.op) = x)
            /\ MembersWithValue(Cls, x) # {} =>
                   (Returned(ret) /\ FieldOf(call.op) \in MembersWithValue(Cls, x))
            /\ (x \notin Cls /\ MembersWithValue(Cls, x) = {}) =>
                   /\ Raised(ret) /\ ret.type = ConfigurationErrorKind
                   /\ FieldOf(call.op) # x

\* C11, amended: as above, except that the error on a string matching no
\* member is the enumeration lookup's ValueError, not the configuration error.
C11_UnknownStringRaisesValueError ==
    call.op \in EnumSetters =>
        LET Cls == SetterEnum(call.op)
            x == call.arg
        IN  /\ x \in Cls => (Returned(ret) /\ FieldOf(call.op) = x)
            /\ MembersWithValue(Cls, x) # {} =>
                   (Returned(ret) /\ FieldOf(call.op) \in MembersWithValue(Cls, x))
            /\ (x \notin Cls /\ MembersWithValue(Cls, x) = {}) =>
                   /\ Raised(ret) /\ ret.type = "ValueError"
                   /\ FieldOf(call.op) # x

\* C11 witness: product("tides") has failed on a request whose product was
\* PREDICTIONS, and the product is still PREDICTIONS.
C11_Witness ==
    /\ call = Call("product", PyStr(<<"tides">>))
    /\ Raised(ret)
    /\ _product = Attr(Product, "PREDICTIONS")

\* the last call was execute() and the service answered with an error payload
ServiceAnsweredError ==
    /\ call.op = "execute" /\ IsReady
    /\ ~call.arg.failed /\ "error" \in DOMAIN call.arg.payload

\* C12: the error execute() raises on a payload with an error key is of
\* another kind than the configuration error and is raised after that
\* call's fetch; a configuration error is raised before any fetch.
C12_ServiceErrorIsDistinctKind ==
    /\ ServiceAnsweredError =>
           /\ Raised(ret) /\ ret.type # ConfigurationErrorKind
           /\ fetched # None
    /\ (call.op = "execute" /\ ~IsReady) =>
           /\ Raised(ret) /\ ret.type = ConfigurationErrorKind
           /\ fetched = None

\* the order of raise and fetch alone: a service error comes with that
\* call's fetch, a configuration error with none
FetchOrderOfErrors ==
    /\ ServiceAnsweredError => (Raised(ret) /\ fetched # None)
    /\ (call.op = "execute" /\ ~IsReady) =>
           /\ Raised(ret) /\ ret.type = ConfigurationErrorKind
           /\ fetched = None

\* C13: execute() caches nothing. After n consecutive execute() calls on a
\* ready request, n fetches have been issued, one per call and all with the
\* request's URL, and the outcome of the last call is the one its own
\* response gives, whatever the earlier calls of the run returned or raised.
C13_NoCaching ==
    (call.op = "execute" /\ IsReady) =>
        /\ Len(run) >= 1
        /\ \A i \in 1..Len(run) : run[i].url = PyStr(ExpectedUrl)
        /\ fetched = run[Len(run)].url
        /\ ret = execute(self, call.arg).out
        /\ run[Len(run)].ok = Returned(ret)

\* C13 witness: two execute() calls in a row on a ready request, the first
\* failed, the second returned a result, both fetched the same URL.
C13_Witness ==
    /\ call.op = "execute" /\ IsReady
    /\ Len(run) = 2
    /\ ~run[1].ok /\ run[2].ok /\ Returned(ret)
    /\ run[1].url = run[2].url /\ run[2].url # None

\* the query operations: is_valid(), serialize(), to_query_string(),
\* to_url() and is_ready()
QueryOps == {"is_valid", "as_dict", "time_range.__str__", "__str__", "_ready"}

\* what the query that was called last returns when it is called again now
SameQueryAgain ==
    CASE call.op = "is_valid" -> Return(PyBool(is_valid(time_range)))
      [] call.op = "as_dict" -> as_dict(time_range)
      [] call.op = "time_range.__str__" ->
             IF Returned(time_range_str(time_range))
             THEN Return(PyStr(time_range_str(time_range).v))
             ELSE time_range_str(time_range)
      [] call.op = "__str__" ->
             IF Returned(request_str(self)) THEN Return(PyStr(request_str(self).v))
             ELSE request_str(self)
      [] call.op = "_ready" -> _ready(self, call.arg.b)

\* C14: a query operation leaves every field of the request and of its time
\* range as it was, and the same query called again right after it returns
\* (or raises) the same as it just did.
C14_QueriesArePure ==
    /\ [][call'.op \in QueryOps => UNCHANGED <<trVars, reqVars>>]_vars
    /\ [](call.op \in QueryOps => ret = SameQueryAgain)

\* C14 witness: serialize() has returned the pairs of a ready request whose
\* duration is 0.
C14_Witness ==
    /\ call.op = "as_dict" /\ Returned(ret)
    /\ IsReady /\ hours = PyInt(0)

\* the setters, and the fields of the request and its time range, each under
\* the name of its setter
SetterOps == {"begin_date", "end_date", "range", "station"} \cup EnumSetters

Fields == [op \in SetterOps |-> FieldOf(op)]

\* the value a successful setter call c assigns: its argument, or for an
\* enumerated field the member the argument is or names
Assigned(c) ==
    IF c.op \in EnumSetters /\ c.arg \notin SetterEnum(c.op)
    THEN CHOOSE m \in SetterEnum(c.op) : m.value = c.arg.s
    ELSE c.arg

\* C15: a setter changes no field but the one it names; when it succeeds it
\* has assigned that field and returns the instance it was called on; when
\* it fails (on an unrecognized string) every field, its own included, keeps
\* its value.
C15_SetterFrame ==
    [][call'.op \in SetterOps =>
          /\ \A op \in SetterOps \ {call'.op} : Fields'[op] = Fields[op]
          /\ Returned(ret') =>
                 (ret' = Return(Self) /\ Fields'[call'.op] = Assigned(call'))
          /\ Raised(ret') => Fields' = Fields]_vars

\* C15 witness: timezone("utc") has failed on a request whose other fields
\* are set, and the time zone is still GMT.
C15_Witness ==
    /\ call = Call("timezone", PyStr(<<"utc">>))
    /\ Raised(ret)
    /\ _timezone = Attr(TimeZone, "GMT")
    /\ IsSet(_product) /\ IsSet(_datum) /\ IsSet(_units) /\ IsSet(_station)

====
